---- MODULE Spec2Model ----
(***************************************************************************)
(* ZippyPack: the .zpak image codec (create_image / extract_image), the    *)
(* .zpp archive writers (compress_folder, compress_directory_solid) and    *)
(* the archive reader (decompress_archive), modelled at byte level.        *)
(*                                                                         *)
(* A byte is a number in 0..255, a file or stream a sequence of bytes.     *)
(* A filesystem location is a sequence of path components counted from the *)
(* filesystem root, each component a sequence of bytes.                    *)
(***************************************************************************)
EXTENDS Integers, Sequences, FiniteSets, TLC

(***************************************************************************)
(* Bounds of the model.                                                    *)
(***************************************************************************)
\* longest file content of an input tree, in bytes
MaxFileLen == 3
\* most file records in a hand-made image, most entries in a hand-made archive
MaxRecords == 2
\* longest entry path of the archives that try sanitize_path
MaxPathLen == 4
\* MAX_SAMPLE_SIZE of compress.rs:167 scaled down (64 * 1024 in the source)
MAX_SAMPLE_SIZE == 2
\* MAX_SAMPLES of compress.rs:168 scaled down (100 in the source)
MAX_SAMPLES == 3
\* the samples needed to train, compress.rs:182, scaled down (8 in the source)
MIN_SAMPLES == 2
\* BLOCK_SIZE of image.rs:23 scaled down (65536 in the source)
BLOCK_SIZE == 2
\* number of values the 64-bit DefaultHasher output is scaled down to
HashSpace == 4

(***************************************************************************)
(* Program constants.                                                      *)
(***************************************************************************)
\* 100 * 1024 * 1024, the dictionary ceiling of decompress_archive
MAX_DICT_SIZE == 104857600
\* std::hash digest is copied into a [u8; 32]
HASH_LEN == 32
\* the path separator byte written by compress_folder
NUL == 0
\* generate_global_dictionary: size of the trained dictionary
DICT_SIZE == 65536

\* values of u64 fields at or above 2^31 - 1 are all represented by Huge
Huge == 2147483646 + 1

(***************************************************************************)
(* Sequence helpers.                                                       *)
(***************************************************************************)
Min(a, b) == IF a < b THEN a ELSE b

Take(s, n) == SubSeq(s, 1, Min(n, Len(s)))

Drop(s, n) == SubSeq(s, n + 1, Len(s))

RECURSIVE Concat(_)
Concat(ss) == IF ss = <<>> THEN <<>> ELSE Head(ss) \o Concat(Tail(ss))

Zeros(n) == [i \in 1..n |-> 0]

Range(s) == {s[i] : i \in DOMAIN s}

IsPrefix(p, s) == Len(p) <= Len(s) /\ SubSeq(s, 1, Len(p)) = p

\* all sequences over S of length at most n
SeqsUpTo(S, n) == UNION {[1..k -> S] : k \in 0..n}

(***************************************************************************)
(* Fixed-width little-endian integers (u32 / u64 to_le_bytes and           *)
(* from_le_bytes).  Arithmetic on decoded values saturates at Huge.        *)
(***************************************************************************)
RECURSIVE ToLE(_, _)
ToLE(n, w) == IF w = 0 THEN <<>> ELSE <<n % 256>> \o ToLE(n \div 256, w - 1)

FromLE(b) ==
    IF (\E i \in 5..Len(b) : b[i] # 0) \/ (Len(b) >= 4 /\ b[4] >= 128)
    THEN Huge
    ELSE LET v(i) == IF i <= Len(b) THEN b[i] ELSE 0
         IN  v(1) + 256 * v(2) + 65536 * v(3) + 16777216 * v(4)

SatAdd(a, b) == IF a >= Huge - b THEN Huge ELSE a + b

SatMul(a, k) == IF a >= Huge \div k THEN Huge ELSE a * k

(***************************************************************************)
(* The external zstd codec.  A frame is the 4 magic bytes, one byte that   *)
(* stands for the effect of the level on the output, one length byte and   *)
(* the payload with every byte complemented.  decode_all decodes frames    *)
(* until the end of its input; anything that is not a complete frame is an *)
(* error (Bad).                                                            *)
(***************************************************************************)
Bad == <<-1>>

ZSTD_MAGIC == <<40, 181, 47, 253>>

encode_all(data, level) ==
    ZSTD_MAGIC \o <<level, Len(data)>> \o [i \in 1..Len(data) |-> 255 - data[i]]

RECURSIVE decode_all(_)
decode_all(src) ==
    IF src = <<>> THEN <<>>
    ELSE IF Len(src) < 6 \/ Take(src, 4) # ZSTD_MAGIC \/ Len(src) < 6 + src[6] THEN Bad
    ELSE LET n    == src[6]
             body == [i \in 1..n |-> 255 - src[6 + i]]
             rest == decode_all(Drop(src, 6 + n))
         IN  IF rest = Bad THEN Bad ELSE body \o rest

(***************************************************************************)
(* image.rs: content hashing and block splitting.                          *)
(***************************************************************************)
\* DefaultHasher over a byte slice: the length prefix and then every byte
\* are mixed into the state; the result has HashSpace values.
RECURSIVE HashMix(_, _)
HashMix(h, data) ==
    IF data = <<>> THEN h
    ELSE HashMix((h * 31 + Head(data) + 1) % HashSpace, Tail(data))

DefaultHasher(data) == HashMix(Len(data) % HashSpace, data)

calculate_hash(data) == ToLE(DefaultHasher(data), 8) \o Zeros(HASH_LEN - 8)

RECURSIVE Chunks(_, _)
Chunks(data, size) ==
    IF data = <<>> THEN <<>>
    ELSE <<Take(data, size)>> \o Chunks(Drop(data, size), size)

\* chunks of one byte more than BLOCK_SIZE
split_into_blocks_OffByOne(data) ==
    LET cs == Chunks(data, BLOCK_SIZE + 1)
    IN  [i \in 1..Len(cs) |-> [hash |-> calculate_hash(cs[i]), data |-> cs[i]]]

\* image.rs lines 98-105
split_into_blocks(data) ==
    LET cs == Chunks(data, BLOCK_SIZE)
    IN  [i \in 1..Len(cs) |-> [hash |-> calculate_hash(cs[i]), data |-> cs[i]]]

(***************************************************************************)
(* Paths.  Byte values of the characters the code names.                   *)
(***************************************************************************)
DotDot == <<46, 46>>

Dot == <<46>>

\* char::is_whitespace on the ASCII range, as used by str::trim / trim_end
Whitespace == {9, 10, 11, 12, 13, 32}

\* String::from_utf8 on the byte strings of this model, which hold no
\* multi-byte sequence: a byte of 128 or more is then never valid
IsUtf8(bytes) == \A i \in DOMAIN bytes : bytes[i] < 128

RECURSIVE SplitOn(_, _)
\* str::split: the pieces of s between the separator bytes (possibly empty)
SplitOn(s, seps) ==
    IF \A i \in DOMAIN s : s[i] \notin seps THEN <<s>>
    ELSE LET k == CHOOSE i \in DOMAIN s :
                     s[i] \in seps /\ \A j \in 1..(i - 1) : s[j] \notin seps
         IN  <<SubSeq(s, 1, k - 1)>> \o SplitOn(Drop(s, k), seps)

RECURSIVE TrimStart(_)
TrimStart(s) ==
    IF s # <<>> /\ Head(s) \in Whitespace THEN TrimStart(Tail(s)) ELSE s

RECURSIVE TrimEnd(_)
TrimEnd(s) ==
    IF s # <<>> /\ s[Len(s)] \in Whitespace THEN TrimEnd(SubSeq(s, 1, Len(s) - 1)) ELSE s

Trim(s) == TrimEnd(TrimStart(s))

RECURSIVE JoinWith(_, _)
JoinWith(parts, sep) ==
    IF parts = <<>> THEN <<>>
    ELSE IF Len(parts) = 1 THEN parts[1]
    ELSE parts[1] \o sep \o JoinWith(Tail(parts), sep)

RECURSIVE Without(_, _)
\* the elements of s that are not in the set drop, in order
Without(s, drop) ==
    IF s = <<>> THEN <<>>
    ELSE (IF Head(s) \in drop THEN <<>> ELSE <<Head(s)>>) \o Without(Tail(s), drop)

\* std::path: the components of a Unix path string; empty and "." pieces
\* are dropped, ".." is kept
PathComponents(p) == Without(SplitOn(p, {47}), {<<>>, Dot})

IsAbsolute(p) == p # <<>> /\ p[1] = 47

\* PathBuf::join: an absolute argument replaces the base
Join(base, p) == IF IsAbsolute(p) THEN PathComponents(p) ELSE base \o PathComponents(p)

(***************************************************************************)
(* decompress.rs: sanitize_path.                                           *)
(***************************************************************************)
InvalidChars == {60, 62, 58, 34, 124, 63, 42}

\* the invalid characters left in place
SanitizeComponent_NoReplace(c) == c

\* line 49: str::replace of each invalid character by '_'
SanitizeComponent(c) == [i \in 1..Len(c) |-> IF c[i] \in InvalidChars THEN 95 ELSE c[i]]

sanitize_path(path) ==
    LET p    == Trim(path)
        kept == Without(SplitOn(p, {47, 92}), {Dot, DotDot, <<>>})
        safe == [i \in 1..Len(kept) |-> SanitizeComponent(kept[i])]
    IN  IF p = <<>> THEN [ok |-> FALSE, comps |-> <<>>]
        ELSE IF p[1] = 47 \/ p[1] = 92 \/ 58 \in Range(p) THEN [ok |-> FALSE, comps |-> <<>>]
        ELSE IF safe = <<>> THEN [ok |-> FALSE, comps |-> <<>>]
        ELSE [ok |-> TRUE, comps |-> safe]

(***************************************************************************)
(* The output filesystem: a set of directories, a function from file       *)
(* locations to contents, and symbolic links to directories.  Resolution   *)
(* is the operating system's: ".." is the parent of the directory reached, *)
(* a link is followed to its target.                                       *)
(***************************************************************************)
Parent(loc) == IF loc = <<>> THEN <<>> ELSE SubSeq(loc, 1, Len(loc) - 1)

Follow(links, loc) == IF loc \in DOMAIN links THEN links[loc] ELSE loc

StepTo(links, loc, c) == IF c = DotDot THEN Parent(loc) ELSE Follow(links, Append(loc, c))

RECURSIVE ResolveFrom(_, _, _)
ResolveFrom(links, loc, comps) ==
    IF comps = <<>> THEN loc
    ELSE ResolveFrom(links, StepTo(links, loc, Head(comps)), Tail(comps))

\* the location a path (components from the filesystem root) names
Resolve(links, comps) == ResolveFrom(links, <<>>, comps)

\* whether every directory on the way to the path's last component exists
RECURSIVE WalkableFrom(_, _, _, _)
WalkableFrom(links, ds, loc, comps) ==
    IF comps = <<>> THEN TRUE
    ELSE loc \in ds /\ WalkableFrom(links, ds, StepTo(links, loc, Head(comps)), Tail(comps))

\* fs::create_dir_all: every missing directory along the path is made, in
\* order; a regular file in the way is an error
RECURSIVE MkdirFrom(_, _, _, _, _)
MkdirFrom(links, ds, fs, loc, comps) ==
    IF comps = <<>> THEN [ok |-> TRUE, dirs |-> ds]
    ELSE LET nxt == StepTo(links, loc, Head(comps))
         IN  IF nxt \in DOMAIN fs THEN [ok |-> FALSE, dirs |-> ds]
             ELSE MkdirFrom(links, ds \cup {nxt}, fs, nxt, Tail(comps))

create_dir_all(links, ds, fs, comps) == MkdirFrom(links, ds, fs, <<>>, comps)

\* File::create: the parent must exist, the target must not be a directory
FileCreate(links, ds, fs, comps, data) ==
    LET target == Resolve(links, comps)
    IN  IF comps = <<>> \/ ~WalkableFrom(links, ds, <<>>, comps) \/ target \in ds
        THEN [ok |-> FALSE, files |-> fs, loc |-> target]
        ELSE [ok |-> TRUE,
              files |-> [l \in DOMAIN fs \cup {target} |-> IF l = target THEN data ELSE fs[l]],
              loc |-> target]

\* Path::canonicalize: fails unless the path exists
canonicalize(links, ds, fs, comps) ==
    LET target == Resolve(links, comps)
    IN  [ok  |-> WalkableFrom(links, ds, <<>>, comps) /\ (target \in ds \/ target \in DOMAIN fs),
         loc |-> target]

(***************************************************************************)
(* State.                                                                  *)
(***************************************************************************)
VARIABLES
    pc,            \* position of the running command
    opts,          \* the command's options (level, solid)
    tree,          \* the input directory, as WalkDir enumerates it
    file_entries,  \* create_image: Vec<FileEntry>
    block_store,   \* create_image: HashMap<BlockHash, DataBlock>
    totals,        \* create_image: total_files and total_size
    jobs,          \* compress_folder: the result of each per-file job
    completed,     \* compress_folder: job indices in completion order
    container,     \* the bytes of the .zpak / .zpp file
    dec,           \* the reader's cursor and tables
    dirs,          \* filesystem: the directories that exist
    files,         \* filesystem: location -> content of the regular files
    links,         \* filesystem: location -> target of the symbolic links
    touched,       \* locations the reader created or wrote
    allocs,        \* sizes of the buffers the reader allocated from length fields
    err            \* the command's result: "none" (running / Ok) or an error

vars == <<pc, opts, tree, file_entries, block_store, totals, jobs, completed,
          container, dec, dirs, files, links, touched, allocs, err>>

\* the output directory of the readers and the directories around it
W == <<119>>

OUT == <<111>>

ETC == <<101>>

OutRoot == <<W, OUT>>

Inside(loc) == IsPrefix(OutRoot, loc)

NoFiles == [l \in {} |-> <<>>]

\* what the reader took from the record it processed last
NoRecord == [path |-> <<>>, is_dir |-> TRUE, digests |-> <<>>, wrote |-> FALSE]

NoDec == [pos |-> 0, stream |-> <<>>, block_index |-> NoFiles, count |-> 0, i |-> 0,
          last |-> NoRecord]

\* bytes of file contents in the input trees
ContentBytes == {104, 119}

FileContents == SeqsUpTo(ContentBytes, MaxFileLen)

Levels == {3, 19}

DirEntry(path) == [path |-> path, is_dir |-> TRUE, data |-> <<>>, modified |-> 0]

FileIn(path, data) == [path |-> path, is_dir |-> FALSE, data |-> data, modified |-> 9]

Optional(S) == {<<>>} \cup {<<x>> : x \in S}

(***************************************************************************)
(* image.rs: create_image.                                                 *)
(***************************************************************************)
\* the trees imaged: the root, an optional file a, a directory d and an
\* optional file d/b
ImageTrees ==
    { <<DirEntry(<<>>)>> \o a \o <<DirEntry(<<100>>)>> \o b :
        a \in Optional({FileIn(<<97>>, c) : c \in FileContents}),
        b \in Optional({FileIn(<<100, 47, 98>>, c) : c \in FileContents}) }

EmptyStore == [h \in {} |-> [compressed_data |-> <<>>, original_size |-> 0]]

\* lines 182-188: a block is compressed and stored unless its digest is a key
InsertIfAbsent(store, hash, block_data, level) ==
    IF hash \in DOMAIN store THEN store
    ELSE [h \in DOMAIN store \cup {hash} |->
            IF h = hash
            THEN [compressed_data |-> encode_all(block_data, level),
                  original_size   |-> Len(block_data)]
            ELSE store[h]]

RECURSIVE StoreBlocks(_, _, _)
\* lines 178-189: the loop over the blocks of one file
StoreBlocks(store, blocks, level) ==
    IF blocks = <<>> THEN store
    ELSE StoreBlocks(InsertIfAbsent(store, Head(blocks).hash, Head(blocks).data, level),
                     Tail(blocks), level)

\* lines 128-197: one iteration of the walk loop
CreateImageEntry ==
    /\ pc = "ci_walk"
    /\ Len(file_entries) < Len(tree)
    /\ LET e      == tree[Len(file_entries) + 1]
           blocks == split_into_blocks(e.data)
       IN  IF e.is_dir
           THEN /\ file_entries' = Append(file_entries,
                      [path |-> e.path, size |-> 0, modified |-> 0,
                       is_directory |-> TRUE, blocks |-> <<>>])
                /\ UNCHANGED <<block_store, totals>>
           ELSE /\ file_entries' = Append(file_entries,
                      [path |-> e.path, size |-> Len(e.data), modified |-> e.modified,
                       is_directory |-> FALSE,
                       blocks |-> [i \in 1..Len(blocks) |-> blocks[i].hash]])
                /\ block_store' = StoreBlocks(block_store, blocks, opts.level)
                /\ totals' = [files |-> totals.files + 1, size |-> totals.size + Len(e.data)]
    /\ pc' = IF Len(file_entries') = Len(tree) THEN "ci_write" ELSE "ci_walk"
    /\ UNCHANGED <<opts, tree, jobs, completed, container, dec, dirs, files, links,
                   touched, allocs, err>>

\* lines 144-183: metadata, open, read or encode_all fails and `?` returns
CreateImageIoError ==
    /\ pc = "ci_walk"
    /\ Len(file_entries) < Len(tree)
    /\ ~tree[Len(file_entries) + 1].is_dir
    /\ pc' = "aborted"
    /\ err' = "Io"
    /\ UNCHANGED <<opts, tree, file_entries, block_store, totals, jobs, completed,
                   container, dec, dirs, files, links, touched, allocs>>

\* the orders in which a HashMap may iterate over its keys
IterationOrders(S) ==
    {f \in [1..Cardinality(S) -> S] : \A i, j \in DOMAIN f : f[i] = f[j] => i = j}

\* SystemTime::now() in seconds
Clock == {1700000000}

\* the header counting the block references of the files instead of the
\* entries of the store
ImageHeaderBytes_CountsReferences(created, store) ==
    LET order == CHOOSE f \in IterationOrders(DOMAIN store) : TRUE
        csize == Concat([i \in 1..Len(order) |-> store[order[i]].compressed_data])
        refs  == Concat([k \in 1..Len(file_entries) |-> file_entries[k].blocks])
    IN  ToLE(1, 4) \o ToLE(created, 8) \o ToLE(totals.files, 8) \o ToLE(totals.size, 8)
        \o ToLE(Len(csize), 8) \o ToLE(Len(refs), 8)

\* lines 238-243
ImageHeaderBytes(created, store) ==
    LET order == CHOOSE f \in IterationOrders(DOMAIN store) : TRUE
        csize == Concat([i \in 1..Len(order) |-> store[order[i]].compressed_data])
    IN  ToLE(1, 4) \o ToLE(created, 8) \o ToLE(totals.files, 8) \o ToLE(totals.size, 8)
        \o ToLE(Len(csize), 8) \o ToLE(Cardinality(DOMAIN store), 8)

\* lines 246-250
BlockIndexBytes(store, order) ==
    Concat([i \in 1..Len(order) |->
        order[i] \o ToLE(store[order[i]].original_size, 8)
                 \o ToLE(Len(store[order[i]].compressed_data), 8)])

\* the payloads written in another order than the index records: the last
\* block of the index first
BlockDataBytes_OtherOrder(store, order) ==
    Concat([i \in 1..Len(order) |-> store[order[Len(order) + 1 - i]].compressed_data])

\* lines 253-255
BlockDataBytes(store, order) ==
    Concat([i \in 1..Len(order) |-> store[order[i]].compressed_data])

\* lines 259-271: one file record
FileRecordBytes(fe) ==
    ToLE(Len(fe.path), 8) \o fe.path \o ToLE(fe.size, 8) \o ToLE(fe.modified, 8)
    \o <<IF fe.is_directory THEN 1 ELSE 0>> \o ToLE(Len(fe.blocks), 8) \o Concat(fe.blocks)

\* lines 258-271
FileIndexBytes(entries) ==
    ToLE(Len(entries), 8) \o Concat([i \in 1..Len(entries) |-> FileRecordBytes(entries[i])])

\* lines 217-273: the image is written; both loops over block_store iterate
\* the unmodified map, hence in the same order
CreateImageWrite ==
    /\ pc = "ci_write"
    /\ \E order \in IterationOrders(DOMAIN block_store), created \in Clock :
          container' = ImageHeaderBytes(created, block_store)
                       \o BlockIndexBytes(block_store, order)
                       \o BlockDataBytes(block_store, order)
                       \o FileIndexBytes(file_entries)
    /\ pc' = "ex_open"
    /\ UNCHANGED <<opts, tree, file_entries, block_store, totals, jobs, completed,
                   dec, dirs, files, links, touched, allocs, err>>

(***************************************************************************)
(* image.rs: extract_image.                                                *)
(***************************************************************************)
\* Read::read_exact of n bytes at offset pos
Read(stream, pos, n) ==
    IF n = 0 \/ (pos <= Len(stream) /\ n <= Len(stream) - pos)
    THEN [ok |-> TRUE, bytes |-> SubSeq(stream, pos + 1, pos + n), pos |-> pos + n]
    ELSE [ok |-> FALSE, bytes |-> <<>>, pos |-> pos]

EmptyIndex == [h \in {} |-> [offset |-> 0, original_size |-> 0, compressed_size |-> 0]]

RECURSIVE ReadBlockIndex(_, _, _, _, _)
\* lines 315-328: block_count index records; HashMap::insert replaces a key
ReadBlockIndex(stream, pos, n, offset, idx) ==
    IF n = 0 THEN [ok |-> TRUE, pos |-> pos, idx |-> idx]
    ELSE LET r == Read(stream, pos, HASH_LEN + 16)
         IN  IF ~r.ok THEN [ok |-> FALSE, pos |-> pos, idx |-> idx]
             ELSE LET hash  == SubSeq(r.bytes, 1, HASH_LEN)
                      osize == FromLE(SubSeq(r.bytes, HASH_LEN + 1, HASH_LEN + 8))
                      csize == FromLE(SubSeq(r.bytes, HASH_LEN + 9, HASH_LEN + 16))
                      entry == [offset |-> offset, original_size |-> osize,
                                compressed_size |-> csize]
                  IN  ReadBlockIndex(stream, r.pos, n - 1, SatAdd(offset, csize),
                         [h \in DOMAIN idx \cup {hash} |-> IF h = hash THEN entry ELSE idx[h]])

\* lines 290-307: the header as extract_image parses it, six reads of 8
\* bytes each; the version is taken from the first 4 bytes of the first
ReadHeader(stream) ==
    LET hdr  == Read(stream, 0, 48)
        f(k) == IF hdr.ok THEN FromLE(SubSeq(hdr.bytes, 8 * k + 1, 8 * k + 8)) ELSE 0
    IN  [ok |-> hdr.ok, pos |-> hdr.pos,
         version |-> IF hdr.ok THEN FromLE(SubSeq(hdr.bytes, 1, 4)) ELSE 0,
         created |-> f(1), total_files |-> f(2), total_size |-> f(3),
         compressed_size |-> f(4), block_count |-> f(5)]

\* line 313: where extract_image takes the data section to begin
DataBase(block_count) == SatAdd(48, SatMul(block_count, HASH_LEN + 16))

\* lines 287-335: header, block index, output directory, file count.  The
\* header is read as six 8-byte fields.
ExtractOpen ==
    /\ pc = "ex_open"
    /\ LET hdr   == ReadHeader(container)
           bc    == hdr.block_count
           base  == DataBase(bc)
           ix    == ReadBlockIndex(container, hdr.pos, bc, base, EmptyIndex)
           mk    == create_dir_all(links, dirs, files, OutRoot)
           fc    == Read(container, ix.pos, 8)
       IN  IF ~hdr.ok \/ ~ix.ok
           THEN /\ err' = "Io" /\ pc' = "done"
                /\ UNCHANGED <<dec, dirs, touched>>
           ELSE /\ dirs' = mk.dirs
                /\ touched' = touched \cup (mk.dirs \ dirs)
                /\ IF ~mk.ok \/ ~fc.ok
                   THEN err' = "Io" /\ pc' = "done" /\ UNCHANGED dec
                   ELSE /\ dec' = [pos |-> fc.pos, stream |-> container,
                                   block_index |-> ix.idx, count |-> FromLE(fc.bytes),
                                   i |-> 0, last |-> NoRecord]
                        /\ pc' = "ex_rec"
                        /\ UNCHANGED err
    /\ UNCHANGED <<opts, tree, file_entries, block_store, totals, jobs, completed,
                   container, files, links, allocs>>

RECURSIVE ReadFileBlocks(_, _, _, _, _, _, _)
\* lines 372-388: the digests of one file record; a digest that is not in
\* the block index is passed over
ReadFileBlocks(image, pos, n, idx, acc, al, seen) ==
    IF n = 0
    THEN [err |-> "none", pos |-> pos, data |-> acc, allocs |-> al, digests |-> seen]
    ELSE LET h == Read(image, pos, HASH_LEN)
             s2 == Append(seen, h.bytes)
         IN  IF ~h.ok
             THEN [err |-> "Io", pos |-> pos, data |-> acc, allocs |-> al, digests |-> seen]
             ELSE IF h.bytes \notin DOMAIN idx
                  THEN ReadFileBlocks(image, h.pos, n - 1, idx, acc, al, s2)
             ELSE LET e   == idx[h.bytes]
                      al2 == al \cup {e.compressed_size}
                      c   == Read(image, e.offset, e.compressed_size)
                      d   == decode_all(c.bytes)
                  IN  IF ~c.ok \/ d = Bad
                      THEN [err |-> "Io", pos |-> h.pos, data |-> acc, allocs |-> al2,
                            digests |-> s2]
                      ELSE ReadFileBlocks(image, h.pos, n - 1, idx, acc \o d, al2, s2)

\* an error return that cleans up: the files below the output directory are
\* removed before the error is handed to the caller
Outcome_RollbackOnError(e, pos, ds, fs, tch, al, rec) ==
    [err |-> e, pos |-> pos, dirs |-> ds,
     files |-> IF e \in {"none", "end"} THEN fs
               ELSE [l \in {x \in DOMAIN fs : ~Inside(x)} |-> fs[l]],
     touched |-> tch, allocs |-> al, last |-> rec]

\* what one iteration of a reader's loop leaves behind: `?` returns the
\* error and the files and directories stay as they are at that point
Outcome(e, pos, ds, fs, tch, al, rec) ==
    [err |-> e, pos |-> pos, dirs |-> ds, files |-> fs, touched |-> tch, allocs |-> al,
     last |-> rec]

\* lines 339-392: one file record is read and extracted
ExtractOneRecord(image, pos, idx, lk, ds, fs, al) ==
    LET no(e, a) == Outcome(e, pos, ds, fs, {}, a, NoRecord)
        plen == Read(image, pos, 8)
        n    == FromLE(plen.bytes)
        al1  == al \cup {n}
        path == Read(image, plen.pos, n)
        meta == Read(image, path.pos, 17)
        full == Join(OutRoot, path.bytes)
        rec(isd, ds2, w) == [path |-> path.bytes, is_dir |-> isd, digests |-> ds2,
                             wrote |-> w]
    IN  IF ~plen.ok THEN no("Io", al)
        ELSE IF ~path.ok THEN no("Io", al1)
        ELSE IF ~IsUtf8(path.bytes) THEN no("Utf8", al1)
        ELSE IF ~meta.ok THEN no("Io", al1)
        ELSE IF meta.bytes[17] = 1
        THEN LET mk == create_dir_all(lk, ds, fs, full)
             IN  Outcome(IF mk.ok THEN "none" ELSE "Io", meta.pos, mk.dirs, fs,
                         mk.dirs \ ds, al1, rec(TRUE, <<>>, FALSE))
        ELSE LET mk  == IF full = <<>> THEN [ok |-> TRUE, dirs |-> ds]
                        ELSE create_dir_all(lk, ds, fs, Parent(full))
                 bc  == Read(image, meta.pos, 8)
                 blk == ReadFileBlocks(image, bc.pos, FromLE(bc.bytes), idx, <<>>, al1, <<>>)
                 out == FileCreate(lk, mk.dirs, fs, full, blk.data)
                 made == mk.dirs \ ds
             IN  IF ~mk.ok \/ ~bc.ok
                 THEN Outcome("Io", meta.pos, mk.dirs, fs, made, al1, rec(FALSE, <<>>, FALSE))
                 ELSE IF blk.err # "none"
                      THEN Outcome(blk.err, blk.pos, mk.dirs, fs, made, blk.allocs,
                                   rec(FALSE, blk.digests, FALSE))
                 ELSE IF ~out.ok
                      THEN Outcome("Io", blk.pos, mk.dirs, fs, made, blk.allocs,
                                   rec(FALSE, blk.digests, FALSE))
                 ELSE Outcome("none", blk.pos, mk.dirs, out.files,
                              made \cup {out.loc}, blk.allocs, rec(FALSE, blk.digests, TRUE))

\* lines 337-397: one iteration of the loop over the file records
ExtractRecord ==
    /\ pc = "ex_rec"
    /\ dec.i < dec.count
    /\ LET r == ExtractOneRecord(dec.stream, dec.pos, dec.block_index, links, dirs,
                                 files, allocs)
       IN  /\ dirs' = r.dirs
           /\ files' = r.files
           /\ touched' = touched \cup r.touched
           /\ allocs' = r.allocs
           /\ err' = r.err
           /\ IF r.err = "none"
              THEN /\ dec' = [dec EXCEPT !.pos = r.pos, !.i = @ + 1, !.last = r.last]
                   /\ pc' = "ex_rec"
              ELSE /\ dec' = [dec EXCEPT !.pos = r.pos, !.last = r.last]
                   /\ pc' = "done"
    /\ UNCHANGED <<opts, tree, file_entries, block_store, totals, jobs, completed,
                   container, links>>

\* lines 399-400: every record was processed
ExtractDone ==
    /\ pc = "ex_rec"
    /\ dec.i >= dec.count
    /\ pc' = "done"
    /\ UNCHANGED <<opts, tree, file_entries, block_store, totals, jobs, completed,
                   container, dec, dirs, files, links, touched, allocs, err>>

(***************************************************************************)
(* Image files that create_image did not write.  They follow the layout    *)
(* extract_image reads: six 8-byte header fields, the block index, then    *)
(* at once the file count and the file records (a directory record ends    *)
(* with its is_dir byte), then the block payloads.  A first index record   *)
(* whose compressed_len is the length of the file records makes the        *)
(* prefix sums of the following blocks point behind the records.           *)
(***************************************************************************)
Digest(n) == <<n>> \o Zeros(HASH_LEN - 1)

PadDigest == [i \in 1..HASH_LEN |-> 255]

CraftRecord(r) ==
    ToLE(Len(r.path), 8) \o r.path \o ToLE(0, 8) \o ToLE(0, 8)
    \o (IF r.is_dir THEN <<1>> ELSE <<0>> \o ToLE(Len(r.blocks), 8) \o Concat(r.blocks))

\* header, block index, the region of the file count and records, payloads
CraftImageRegion(blocks, region) ==
    LET payload  == [i \in 1..Len(blocks) |-> encode_all(blocks[i].data, 3)]
        index    == PadDigest \o ToLE(0, 8) \o ToLE(Len(region), 8)
                    \o Concat([i \in 1..Len(blocks) |->
                          blocks[i].hash \o ToLE(Len(blocks[i].data), 8)
                                         \o ToLE(Len(payload[i]), 8)])
    IN  ToLE(1, 8) \o Zeros(32) \o ToLE(Len(blocks) + 1, 8) \o index \o region
        \o Concat(payload)

CraftImageDeclaring(blocks, recs, count) ==
    CraftImageRegion(blocks,
        ToLE(count, 8) \o Concat([i \in 1..Len(recs) |-> CraftRecord(recs[i])]))

\* the same layout with the file count and the records as create_image
\* writes them: every record ends with its block count and digests
CraftImageOfEntries(blocks, entries) == CraftImageRegion(blocks, FileIndexBytes(entries))

CraftImage(blocks, recs) == CraftImageDeclaring(blocks, recs, Len(recs))

CraftDir(path) == [path |-> path, is_dir |-> TRUE, blocks |-> <<>>]

CraftFile(path, blocks) == [path |-> path, is_dir |-> FALSE, blocks |-> blocks]

\* d/ , a , d/b , m (a digest that is not in the index) , n (a known and an
\* unknown digest) , ../x , /e/x , the directory ../../e/y
CraftedRecords ==
    { CraftDir(<<100>>),
      CraftFile(<<97>>, <<Digest(1)>>),
      CraftFile(<<100, 47, 98>>, <<Digest(1), Digest(1)>>),
      CraftFile(<<109>>, <<Digest(2)>>),
      CraftFile(<<110>>, <<Digest(1), Digest(2)>>),
      CraftFile(<<46, 46, 47, 120>>, <<Digest(1)>>),
      CraftFile(<<47, 101, 47, 120>>, <<Digest(1)>>),
      CraftDir(<<46, 46, 47, 46, 46, 47, 101, 47, 121>>) }

CraftedBlocks == <<[hash |-> Digest(1), data |-> <<104, 105>>]>>

\* the entries d/ and a as create_image records them
WrittenDir == [path |-> <<100>>, size |-> 0, modified |-> 0, is_directory |-> TRUE,
               blocks |-> <<>>]

WrittenFile == [path |-> <<97>>, size |-> 2, modified |-> 9, is_directory |-> FALSE,
                blocks |-> <<Digest(1)>>]

CraftedEntryLists ==
    {<<WrittenDir>>, <<WrittenFile>>, <<WrittenDir, WrittenFile>>, <<WrittenFile, WrittenDir>>}

\* the images with these records, and the same images cut short: a file
\* count of one more than the records they hold
CraftedImages ==
    { CraftImage(CraftedBlocks, recs) :
        recs \in SeqsUpTo(CraftedRecords, MaxRecords) \ {<<>>} }
    \cup { CraftImageDeclaring(CraftedBlocks, recs, Len(recs) + 1) :
              recs \in SeqsUpTo(CraftedRecords, MaxRecords) \ {<<>>} }
    \cup { CraftImageOfEntries(CraftedBlocks, es) : es \in CraftedEntryLists }

(***************************************************************************)
(* The image commands: create_image on a tree and extract_image on the     *)
(* image written, or extract_image on a hand-made image.                   *)
(***************************************************************************)
InitDisk ==
    /\ dirs = {<<>>, <<W>>, <<ETC>>}
    /\ files = NoFiles
    /\ touched = {}
    /\ allocs = {}
    /\ err = "none"

InitImage ==
    /\ \E l \in Levels : opts = [level |-> l, solid |-> FALSE]
    /\ \/ pc = "ci_walk" /\ tree \in ImageTrees /\ container = <<>>
       \/ pc = "ex_open" /\ tree = <<>> /\ container \in CraftedImages
    /\ file_entries = <<>>
    /\ block_store = EmptyStore
    /\ totals = [files |-> 0, size |-> 0]
    /\ jobs = <<>>
    /\ completed = <<>>
    /\ dec = NoDec
    /\ links = NoFiles
    /\ InitDisk

NextImage ==
    \/ CreateImageEntry
    \/ CreateImageIoError
    \/ CreateImageWrite
    \/ ExtractOpen
    \/ ExtractRecord
    \/ ExtractDone

SpecImage == InitImage /\ [][NextImage]_vars

(***************************************************************************)
(* Properties of the image commands.                                       *)
(***************************************************************************)
\* the location below the output directory that a relative path names
OutLoc(path) == OutRoot \o PathComponents(path)

\* the output directory holds the tree: its directories, its files with
\* their contents, and no other file
Reproduced(t) ==
    /\ \A k \in DOMAIN t :
          IF t[k].is_dir THEN OutLoc(t[k].path) \in dirs
          ELSE /\ OutLoc(t[k].path) \in DOMAIN files
               /\ files[OutLoc(t[k].path)] = t[k].data
    /\ \A l \in DOMAIN files :
          Inside(l) => \E k \in DOMAIN t : ~t[k].is_dir /\ OutLoc(t[k].path) = l

ImageWritten == tree # <<>> /\ container # <<>>

\* C1: when create_image has written the image of a tree and extract_image
\* has run on it, the output directory holds the same relative paths, the
\* same directories and byte-identical file contents.
C1_ImageRoundTrip == (pc = "done" /\ ImageWritten) => Reproduced(tree)

\* the distinct block contents of the files walked so far
BlocksOf(data) == Range(Chunks(data, BLOCK_SIZE))

WalkedBlocks ==
    UNION {BlocksOf(tree[k].data) : k \in 1..Len(file_entries)}

\* C4: after the walk the block store holds exactly one compressed block
\* per distinct block content of the tree, and two files with identical
\* bytes have identical digest lists.
C4_OneBlockPerContent ==
    pc = "ci_write" =>
        /\ Cardinality(DOMAIN block_store) = Cardinality(WalkedBlocks)
        /\ \A j, k \in DOMAIN tree :
              tree[j].data = tree[k].data => file_entries[j].blocks = file_entries[k].blocks

\* C6: extract_image creates and writes nothing outside its output
\* directory, whatever the record paths of the image are.
C6_ExtractStaysInside ==
    \A l \in (dirs \cup DOMAIN files) \ {<<>>, <<W>>, <<ETC>>} : Inside(l)

\* the record processed last names a digest that the block index lacks
LastHasUnknownDigest ==
    \E k \in DOMAIN dec.last.digests : dec.last.digests[k] \notin DOMAIN dec.block_index

\* C8: a file record that references a digest absent from the block index
\* ends the extraction with an error and no file is written for it.
C8_UnknownDigestIsFatal ==
    LastHasUnknownDigest => (err # "none" /\ ~dec.last.wrote)

(***************************************************************************)
(* profile.rs and compress.rs: classification of a path by its extension.  *)
(***************************************************************************)
\* the last component of a path
FileName(path) == LET cs == SplitOn(path, {47}) IN cs[Len(cs)]

\* Path::extension: the part of the file name after its last '.', unless
\* the name has no '.' or only a leading one
Extension(path) ==
    LET name == FileName(path)
        dots == {i \in DOMAIN name : name[i] = 46}
        last == CHOOSE i \in dots : \A j \in dots : j <= i
    IN  IF dots = {} \/ name = DotDot \/ last = 1 THEN <<>> ELSE Drop(name, last)

\* str::to_lowercase on ASCII letters
ToLower(str) == [i \in 1..Len(str) |-> IF str[i] \in 65..90 THEN str[i] + 32 ELSE str[i]]

\* compress.rs detect_file_type
detect_file_type(path) ==
    LET ext == ToLower(Extension(path))
    IN  IF ext \in {<<116, 120, 116>>, <<109, 100>>, <<108, 111, 103>>} THEN "Text"
        ELSE IF ext = <<106, 115, 111, 110>> THEN "Json"
        ELSE IF ext = <<108, 117, 97>> THEN "Lua"
        ELSE IF ext = <<112, 121>> THEN "Python"
        ELSE IF ext \in {<<98, 105, 110>>, <<101, 120, 101>>, <<100, 108, 108>>,
                         <<115, 111>>, <<100, 121, 108, 105, 98>>} THEN "Binary"
        ELSE "Other"

\* profile.rs detect_profile
detect_profile(path) ==
    LET ext == ToLower(Extension(path))
    IN  IF ext \in {<<122, 105, 112>>, <<114, 97, 114>>, <<55, 122>>, <<103, 122>>,
                    <<98, 122, 50>>, <<120, 122>>, <<106, 112, 103>>,
                    <<106, 112, 101, 103>>, <<112, 110, 103>>, <<103, 105, 102>>,
                    <<109, 112, 51>>, <<109, 112, 52>>, <<97, 118, 105>>}
        THEN "AlreadyCompressed"
        ELSE IF ext \in {<<116, 120, 116>>, <<109, 100>>, <<106, 115, 111, 110>>,
                         <<120, 109, 108>>, <<104, 116, 109, 108>>, <<99, 115, 115>>,
                         <<106, 115>>, <<116, 115>>, <<112, 121>>, <<114, 115>>, <<99>>,
                         <<99, 112, 112>>, <<104>>, <<104, 112, 112>>}
        THEN "Text"
        ELSE IF ext \in {<<117, 110, 105, 116, 121>>, <<117, 97, 115, 115, 101, 116>>,
                         <<117, 109, 97, 112>>, <<117, 112, 114, 111, 106, 101, 99, 116>>,
                         <<117, 112, 108, 117, 103, 105, 110>>, <<112, 114, 101, 102, 97, 98>>,
                         <<115, 99, 101, 110, 101>>, <<97, 115, 115, 101, 116>>}
        THEN "GameEngine"
        ELSE "Binary"

\* profile.rs get_compression_level
get_compression_level(profile) ==
    CASE profile = "AlreadyCompressed" -> 1
      [] profile = "Text" -> 19
      [] profile = "Binary" -> 12
      [] profile = "GameEngine" -> 15

(***************************************************************************)
(* compress.rs: process_file.                                              *)
(***************************************************************************)
\* String::from_utf8_lossy on strings without multi-byte sequences: every
\* byte of 128 or more becomes U+FFFD
from_utf8_lossy(bytes) ==
    Concat([i \in 1..Len(bytes) |->
              IF bytes[i] < 128 THEN <<bytes[i]>> ELSE <<239, 191, 189>>])

\* str::lines: the pieces between newlines, without a final empty piece
Lines(text) ==
    LET ps == SplitOn(text, {10})
    IN  IF ps[Len(ps)] = <<>> THEN SubSeq(ps, 1, Len(ps) - 1) ELSE ps

\* lines 146-151: trailing whitespace is cut from every line
TrimLines(content) ==
    LET ls == Lines(from_utf8_lossy(content))
    IN  JoinWith([i \in 1..Len(ls) |-> TrimEnd(ls[i])], <<10>>)

IsTextType(ft) == ft \in {"Text", "Json", "Lua", "Python"}

\* lines 142-158
Preprocess(path, content) ==
    IF IsTextType(detect_file_type(path)) THEN TrimLines(content) ELSE content

\* lines 136-162, when fs::read and encode_all succeed
process_file(path, content, level) == encode_all(Preprocess(path, content), level)

(***************************************************************************)
(* compress.rs: compress_folder.                                           *)
(***************************************************************************)
\* contents of the files of the trees archived
ArchiveContents == {<<104>>, <<104, 32>>, <<32, 10, 104, 32, 10>>}

\* the trees archived: optional files a.py, b.so and d/c.rs
ArchiveTrees ==
    { <<DirEntry(<<>>)>> \o a \o b \o <<DirEntry(<<100>>)>> \o c :
        a \in Optional({FileIn(<<97, 46, 112, 121>>, x) : x \in ArchiveContents}),
        b \in Optional({FileIn(<<98, 46, 115, 111>>, x) : x \in ArchiveContents}),
        c \in Optional({FileIn(<<100, 47, 99, 46, 114, 115>>, x) : x \in ArchiveContents}) }

\* further files at the top of the folder: e, then f, then g
SolidExtras ==
    LET e == FileIn(<<101>>, <<32, 10, 104, 32, 10>>)
        f == FileIn(<<102>>, <<104>>)
        g == FileIn(<<103>>, <<104, 32>>)
    IN  {<<>>, <<e>>, <<e, f>>, <<e, f, g>>}

\* the trees archived in solid mode
SolidTrees == {t \o x : t \in ArchiveTrees, x \in SolidExtras}

\* indices of the regular files of a tree, in walk order
RECURSIVE FileIndices(_, _)
FileIndices(t, k) ==
    IF k > Len(t) THEN <<>>
    ELSE (IF t[k].is_dir THEN <<>> ELSE <<k>>) \o FileIndices(t, k + 1)

\* lines 64-86: the walk fills files_to_compress
CompressWalk ==
    /\ pc = "cf_walk"
    /\ LET ix == FileIndices(tree, 1)
       IN  jobs' = [i \in 1..Len(ix) |->
                      [src |-> ix[i], rel |-> tree[ix[i]].path,
                       profile |-> detect_profile(tree[ix[i]].path),
                       state |-> "pending", data |-> <<>>]]
    /\ pc' = "cf_jobs"
    /\ UNCHANGED <<opts, tree, file_entries, block_store, totals, completed, container,
                   dec, dirs, files, links, touched, allocs, err>>

\* lines 91-98: one job of the parallel map finishes, with the compressed
\* bytes or, when fs::read or encode_all fails, with an error
ProcessFile(i) ==
    /\ pc = "cf_jobs"
    /\ jobs[i].state = "pending"
    /\ \E ok \in BOOLEAN :
          LET j == jobs[i]
              r == process_file(j.rel, tree[j.src].data, get_compression_level(j.profile))
          IN  jobs' = [jobs EXCEPT ![i] =
                         IF ok THEN [j EXCEPT !.state = "ok", !.data = r]
                         ELSE [j EXCEPT !.state = "err"]]
    /\ completed' = Append(completed, i)
    /\ UNCHANGED <<pc, opts, tree, file_entries, block_store, totals, container, dec,
                   dirs, files, links, touched, allocs, err>>

\* lines 106-120: the record of one result
ArchiveRecord(rel, data) == rel \o <<NUL>> \o ToLE(Len(data), 8) \o data

\* the results in the order in which the jobs finished
ResultOrder_Completion == completed

\* lines 91-98, 104: the collected results in the order of the Vec, which is
\* the order of files_to_compress

ResultOrder == [i \in 1..Len(jobs) |-> i]

\* the write loop leaving at the first Err instead of passing over it
WriteResultsBytes_StopAtError ==
    LET bad  == {i \in DOMAIN jobs : jobs[i].state = "err"}
        stop == IF bad = {} THEN Len(jobs) + 1
                ELSE CHOOSE i \in bad : \A j \in bad : i <= j
    IN  Concat([k \in 1..(stop - 1) |-> ArchiveRecord(jobs[k].rel, jobs[k].data)])

\* lines 104-124: an Err is logged and passed over
WriteResultsBytes ==
    LET order == ResultOrder
    IN  Concat([k \in 1..Len(order) |->
                  IF jobs[order[k]].state = "ok"
                  THEN ArchiveRecord(jobs[order[k]].rel, jobs[order[k]].data)
                  ELSE <<>>])

\* lines 100-133: every job has finished; the archive is written
WriteResults ==
    /\ pc = "cf_jobs"
    /\ \A i \in DOMAIN jobs : jobs[i].state # "pending"
    /\ container' = WriteResultsBytes
    /\ pc' = "da_open"
    /\ UNCHANGED <<opts, tree, file_entries, block_store, totals, jobs, completed,
                   dec, dirs, files, links, touched, allocs, err>>

(***************************************************************************)
(* compress.rs: compress_directory_solid.                                  *)
(***************************************************************************)
\* fs::read_dir(input_path): the entries directly in the input directory
RECURSIVE TopLevel(_)
TopLevel(t) ==
    IF t = <<>> THEN <<>>
    ELSE (IF Len(PathComponents(Head(t).path)) = 1 THEN <<Head(t)>> ELSE <<>>)
         \o TopLevel(Tail(t))

RECURSIVE Samples(_)
\* lines 170-180: the first MAX_SAMPLE_SIZE bytes of every regular file
Samples(es) ==
    IF es = <<>> THEN <<>>
    ELSE (IF Head(es).is_dir THEN <<>> ELSE <<Take(Head(es).data, MAX_SAMPLE_SIZE)>>)
         \o Samples(Tail(es))

\* zstd::dict::from_samples, the external trainer: a dictionary of at most
\* DICT_SIZE bytes made of sample bytes
from_samples(samples) == Take(Concat(samples), DICT_SIZE)

\* the trainer run on however few samples there are
generate_global_dictionary_AlwaysTrains(t) ==
    from_samples(Samples(Take(TopLevel(t), MAX_SAMPLES)))

\* lines 165-189
generate_global_dictionary(t) ==
    LET samples == Samples(Take(TopLevel(t), MAX_SAMPLES))
    IN  IF Len(samples) < MIN_SAMPLES THEN <<>> ELSE from_samples(samples)

RECURSIVE SolidIndex(_, _, _)
\* lines 223-237: (path, start, end) of every regular file, in walk order
SolidIndex(t, k, start) ==
    IF k > Len(t) THEN <<>>
    ELSE IF t[k].is_dir THEN SolidIndex(t, k + 1, start)
    ELSE <<[path |-> t[k].path, start |-> start, end |-> start + Len(t[k].data)]>>
         \o SolidIndex(t, k + 1, start + Len(t[k].data))

\* lines 223-237: all_data
SolidData(t) == Concat([k \in 1..Len(t) |-> t[k].data])

\* the index with the end offset written where the length belongs
SolidIndexBytes_EndAsLength(index) ==
    ToLE(Len(index), 8)
    \o Concat([k \in 1..Len(index) |->
          ToLE(Len(index[k].path), 8) \o index[k].path \o ToLE(index[k].start, 8)
          \o ToLE(index[k].end, 8)])

\* lines 245-252
SolidIndexBytes(index) ==
    ToLE(Len(index), 8)
    \o Concat([k \in 1..Len(index) |->
          ToLE(Len(index[k].path), 8) \o index[k].path \o ToLE(index[k].start, 8)
          \o ToLE(index[k].end - index[k].start, 8)])

\* lines 204-256
SolidArchiveBytes(t, level) ==
    LET dict == generate_global_dictionary(t)
    IN  ToLE(Len(dict), 8) \o dict \o encode_all(SolidData(t), level)
        \o SolidIndexBytes(SolidIndex(t, 1, 0))

CompressSolid ==
    /\ pc = "cs_start"
    /\ container' = SolidArchiveBytes(tree, opts.level)
    /\ pc' = "da_open"
    /\ UNCHANGED <<opts, tree, file_entries, block_store, totals, jobs, completed,
                   dec, dirs, files, links, touched, allocs, err>>

\* compress_folder lines 65-77, compress_directory_solid lines 208-230: the
\* walk, fs::metadata or fs::read fails and `?` returns the error; the solid
\* writer has put the dictionary length and the dictionary out by then
CompressIoError ==
    /\ pc \in {"cf_walk", "cs_start"}
    /\ \E k \in DOMAIN tree : ~tree[k].is_dir
    /\ container' = IF pc = "cs_start"
                    THEN LET dict == generate_global_dictionary(tree)
                         IN  ToLE(Len(dict), 8) \o dict
                    ELSE container
    /\ pc' = "aborted"
    /\ err' = "Io"
    /\ UNCHANGED <<opts, tree, file_entries, block_store, totals, jobs, completed,
                   dec, dirs, files, links, touched, allocs>>

(***************************************************************************)
(* decompress.rs: decompress_archive.                                      *)
(***************************************************************************)
\* the ceiling with the comparison off by one: a declared size of exactly
\* MAX_DICT_SIZE is refused
DictSizeAllowed_OffByOne(n) == ~(n >= MAX_DICT_SIZE)

\* line 85: the ceiling on the declared dictionary size
DictSizeAllowed(n) == ~(n > MAX_DICT_SIZE)

\* lines 72-105: the output directory is made, the dictionary is read and
\* the rest of the file is decompressed as one stream
DecompressOpen ==
    /\ pc = "da_open"
    /\ LET mk   == create_dir_all(links, dirs, files, OutRoot)
           len  == Read(container, 0, 8)
           n    == FromLE(len.bytes)
           dict == Read(container, len.pos, n)
           data == decode_all(Drop(container, dict.pos))
           fail(e, al) == /\ err' = e /\ pc' = "done" /\ allocs' = al /\ UNCHANGED dec
       IN  /\ dirs' = mk.dirs
           /\ touched' = touched \cup (mk.dirs \ dirs)
           /\ IF ~mk.ok \/ ~len.ok THEN fail("Io", allocs)
              ELSE IF ~DictSizeAllowed(n) THEN fail("InvalidFormat", allocs)
              ELSE IF ~dict.ok THEN fail("Io", allocs \cup {n})
              ELSE IF data = Bad THEN fail("Io", allocs \cup {n})
              ELSE /\ dec' = [NoDec EXCEPT !.stream = data]
                   /\ pc' = "da_entry"
                   /\ allocs' = allocs \cup {n}
                   /\ UNCHANGED err
    /\ UNCHANGED <<opts, tree, file_entries, block_store, totals, jobs, completed,
                   container, files, links>>

\* lines 109-113: bytes up to the next NUL or to the end of the stream
ReadPath(stream, pos) ==
    LET stops == {k \in (pos + 1)..Len(stream) : stream[k] = NUL}
        stop  == CHOOSE k \in stops : \A j \in stops : k <= j
    IN  IF stops = {}
        THEN [bytes |-> SubSeq(stream, pos + 1, Len(stream)), pos |-> Len(stream)]
        ELSE [bytes |-> SubSeq(stream, pos + 1, stop - 1), pos |-> stop]

\* lines 127-133: the containment check passes when the joined path cannot
\* be canonicalized
ContainmentOk(lk, ds, fs, file_path) ==
    LET root == canonicalize(lk, ds, fs, OutRoot)
        file == canonicalize(lk, ds, fs, file_path)
    IN  file.ok => IsPrefix(root.loc, file.loc)

\* lines 107-156: one entry of the stream
DecompressOneEntry(stream, pos, lk, ds, fs, al) ==
    LET path == ReadPath(stream, pos)
        sp   == sanitize_path(path.bytes)
        file_path == OutRoot \o sp.comps
        mk   == create_dir_all(lk, ds, fs, Parent(file_path))
        made == mk.dirs \ ds
        len  == Read(stream, path.pos, 8)
        n    == FromLE(len.bytes)
        body == Read(stream, len.pos, n)
        out  == FileCreate(lk, mk.dirs, fs, file_path, body.bytes)
        rec(w) == [path |-> path.bytes, is_dir |-> FALSE, digests |-> <<>>, wrote |-> w]
        no(e) == Outcome(e, path.pos, ds, fs, {}, al, rec(FALSE))
    IN  IF path.bytes = <<>> THEN Outcome("end", path.pos, ds, fs, {}, al, NoRecord)
        ELSE IF ~IsUtf8(path.bytes) THEN no("InvalidFormat")
        ELSE IF ~sp.ok THEN no("InvalidFormat")
        ELSE IF ~canonicalize(lk, ds, fs, OutRoot).ok THEN no("Io")
        ELSE IF ~ContainmentOk(lk, ds, fs, file_path) THEN no("InvalidFormat")
        ELSE IF ~mk.ok \/ ~len.ok
             THEN Outcome("Io", path.pos, mk.dirs, fs, made, al, rec(FALSE))
        ELSE IF ~body.ok
             THEN Outcome("Io", len.pos, mk.dirs, fs, made, al \cup {n}, rec(FALSE))
        ELSE IF ~out.ok
             THEN Outcome("Io", body.pos, mk.dirs, fs, made, al \cup {n}, rec(FALSE))
        ELSE Outcome("none", body.pos, mk.dirs, out.files, made \cup {out.loc},
                     al \cup {n}, rec(TRUE))

\* lines 106-157: one iteration of the loop; an empty path ends it with Ok
DecompressEntry ==
    /\ pc = "da_entry"
    /\ LET r == DecompressOneEntry(dec.stream, dec.pos, links, dirs, files, allocs)
       IN  /\ dirs' = r.dirs
           /\ files' = r.files
           /\ touched' = touched \cup r.touched
           /\ allocs' = r.allocs
           /\ IF r.err = "none"
              THEN /\ dec' = [dec EXCEPT !.pos = r.pos, !.i = @ + 1, !.last = r.last]
                   /\ pc' = "da_entry"
                   /\ UNCHANGED err
              ELSE /\ dec' = [dec EXCEPT !.pos = r.pos,
                                          !.last = IF r.err = "end" THEN @ ELSE r.last]
                   /\ pc' = "done"
                   /\ err' = IF r.err = "end" THEN "none" ELSE r.err
    /\ UNCHANGED <<opts, tree, file_entries, block_store, totals, jobs, completed,
                   container, links>>

(***************************************************************************)
(* Archives that no writer of this program wrote: a declared dictionary    *)
(* size, the dictionary bytes and one zstd frame holding entries           *)
(* (path, NUL, 8-byte size, payload), with or without the final NUL.       *)
(***************************************************************************)
CraftArchive(size_field, dict, stream) == size_field \o dict \o encode_all(stream, 3)

\* a , d/b , ../../e/x , /e/x , l/x , l/p , ..
CraftedPaths ==
    { <<97>>, <<100, 47, 98>>, <<46, 46, 47, 46, 46, 47, 101, 47, 120>>,
      <<47, 101, 47, 120>>, <<108, 47, 120>>, <<108, 47, 112>>, <<46, 46>> }

CraftedStreams ==
    { Concat([i \in 1..Len(ps) |-> ArchiveRecord(ps[i], <<104, 105>>)]) \o end :
        ps \in SeqsUpTo(CraftedPaths, MaxRecords), end \in {<<>>, <<NUL>>} }

\* declared sizes 0, 2, the ceiling, the ceiling plus one, and 2^32, with
\* the dictionary bytes that follow
CraftedDicts ==
    { <<ToLE(0, 8), <<>>>>,
      <<ToLE(2, 8), <<7, 7>>>>,
      <<ToLE(MAX_DICT_SIZE, 8), <<>>>>,
      <<ToLE(MAX_DICT_SIZE + 1, 8), <<>>>>,
      <<ToLE(MAX_DICT_SIZE - 1, 8), <<7, 7>>>>,
      <<<<0, 0, 0, 0, 1, 0, 0, 0>>, <<7, 7>>>> }

\* streams that stop early: in a path (a, d/b), in a size field, in a
\* payload, and a size field of 2^32 before a payload of two bytes; alone
\* or behind the complete entry a
TruncatedStreams ==
    { pre \o cut :
        pre \in {<<>>, ArchiveRecord(<<97>>, <<104, 105>>)},
        cut \in { <<97>>,
                  <<100, 47, 98>>,
                  <<97, NUL, 2, 0, 0>>,
                  <<97, NUL>> \o ToLE(2, 8) \o <<104>>,
                  <<100, 47, 98, NUL>> \o ToLE(2, 8) \o <<104>>,
                  <<97, NUL, 0, 0, 0, 0, 1, 0, 0, 0, 104, 105>> } }

CraftedArchives ==
    { CraftArchive(ToLE(0, 8), <<>>, st) : st \in CraftedStreams \cup TruncatedStreams }
    \cup { CraftArchive(d[1], d[2], ArchiveRecord(<<97>>, <<104, 105>>)) : d \in CraftedDicts }

\* the characters a , / , . , : , < and the space
PathAlphabet == {97, 47, 46, 58, 60, 32}

\* the entry paths given to sanitize_path: every string over the alphabet,
\* and three with backslashes
SanitizeInputs ==
    (SeqsUpTo(PathAlphabet, MaxPathLen) \ {<<>>})
    \cup {<<92, 97>>, <<97, 92, 97>>, <<46, 46, 92, 97>>}

\* archives of one entry with such a path, and the empty path at the end
SanitizeArchives ==
    { CraftArchive(ToLE(0, 8), <<>>, ArchiveRecord(p, <<104, 105>>) \o <<NUL>>) :
        p \in SanitizeInputs }

\* the output directory may exist and hold a link l to the directory /e
LinkL == <<W, OUT, <<108>>>>

OutputLinks == {NoFiles, [l \in {LinkL} |-> <<ETC>>]}

(***************************************************************************)
(* The archive commands: compress_directory (plain or solid) on a tree and *)
(* decompress_archive on the archive written, or decompress_archive on a   *)
(* hand-made archive.                                                      *)
(***************************************************************************)
InitArchive ==
    /\ \/ /\ \E l \in Levels, solid \in BOOLEAN :
                /\ opts = [level |-> l, solid |-> solid]
                /\ pc = IF solid THEN "cs_start" ELSE "cf_walk"
                /\ tree \in (IF solid THEN SolidTrees ELSE ArchiveTrees)
          /\ container = <<>>
          /\ links = NoFiles
          /\ dirs = {<<>>, <<W>>, <<ETC>>}
       \/ /\ opts = [level |-> 3, solid |-> FALSE]
          /\ pc = "da_open"
          /\ tree = <<>>
          /\ container \in CraftedArchives
          /\ links \in OutputLinks
          /\ dirs = {<<>>, <<W>>, <<ETC>>}
                    \cup (IF links = NoFiles THEN {} ELSE {OutRoot})
       \/ /\ opts = [level |-> 3, solid |-> FALSE]
          /\ pc = "da_open"
          /\ tree = <<>>
          /\ container \in SanitizeArchives
          /\ links = NoFiles
          /\ dirs = {<<>>, <<W>>, <<ETC>>}
    /\ files = [l \in {<<ETC, <<112>>>>} |-> <<112>>]
    /\ file_entries = <<>>
    /\ block_store = EmptyStore
    /\ totals = [files |-> 0, size |-> 0]
    /\ jobs = <<>>
    /\ completed = <<>>
    /\ dec = NoDec
    /\ touched = {}
    /\ allocs = {}
    /\ err = "none"

NextArchive ==
    \/ CompressWalk
    \/ \E i \in DOMAIN jobs : ProcessFile(i)
    \/ WriteResults
    \/ CompressSolid
    \/ CompressIoError
    \/ DecompressOpen
    \/ DecompressEntry

SpecArchive == InitArchive /\ [][NextArchive]_vars

(***************************************************************************)
(* Properties of the archive commands.                                     *)
(***************************************************************************)
RECURSIVE PlainEntries(_)
\* the records (path, NUL, 8-byte length, payload) a byte stream consists of
PlainEntries(stream) ==
    IF stream = <<>> THEN <<>>
    ELSE LET path == ReadPath(stream, 0)
             n    == FromLE(SubSeq(stream, path.pos + 1, path.pos + 8))
         IN  <<[path |-> path.bytes, data |-> SubSeq(stream, path.pos + 9, path.pos + 8 + n)]>>
             \o PlainEntries(Drop(stream, path.pos + 8 + n))

\* compress_folder has returned and left its archive
PlainWritten == tree # <<>> /\ ~opts.solid /\ pc \in {"da_open", "da_entry", "done"}

SolidWritten == tree # <<>> /\ opts.solid /\ pc \in {"da_open", "da_entry", "done"}

\* decompress_archive has read the declared dictionary size
DictSizeRead == pc \in {"da_entry", "done"} /\ Len(container) >= 8

DeclaredDictSize == FromLE(Take(container, 8))

\* every regular file of the tree that Wanted selects is in the output
\* directory with its contents
FilesReproduced(t, Wanted(_)) ==
    \A k \in DOMAIN t :
        (~t[k].is_dir /\ Wanted(t[k].path)) =>
            /\ OutLoc(t[k].path) \in DOMAIN files
            /\ files[OutLoc(t[k].path)] = t[k].data

\* C2: decompress_archive on the archive that the solid writer made of a
\* tree leaves every input file at its relative path with its bytes.
C2_SolidRoundTrip ==
    LET any(path) == TRUE
    IN  (pc = "done" /\ SolidWritten) => FilesReproduced(tree, any)

\* C3: decompress_archive on the archive that compress_folder made of a
\* tree, every job having succeeded, leaves every file of a non-text class
\* at its relative path with its bytes.
C3_PlainRoundTrip ==
    LET nontext(path) == ~IsTextType(detect_file_type(path))
    IN  (pc = "done" /\ PlainWritten /\ \A i \in DOMAIN jobs : jobs[i].state = "ok")
            => FilesReproduced(tree, nontext)

\* C5: decompress_archive creates and writes nothing outside its output
\* directory, whatever the entry paths of the archive are.
C5_DecompressStaysInside ==
    pc \in {"da_entry", "done"} => \A l \in touched : Inside(l)

\* C7: a declared dictionary size above 100 MiB ends decompress_archive
\* with InvalidFormat, no buffer allocated and no file written; a declared
\* size of at most 100 MiB gets its buffer.
C7_DictCeiling ==
    DictSizeRead =>
        IF DeclaredDictSize > MAX_DICT_SIZE
        THEN /\ err = "InvalidFormat"
             /\ allocs = {}
             /\ \A l \in touched : l \notin DOMAIN files
        ELSE DeclaredDictSize \in allocs

C7_Witness ==
    /\ DictSizeRead
    /\ DeclaredDictSize = MAX_DICT_SIZE + 1
    /\ err = "InvalidFormat"

\* the jobs that succeeded, in the order of the walk
RECURSIVE OkJobs(_)
OkJobs(k) ==
    IF k > Len(jobs) THEN <<>>
    ELSE (IF jobs[k].state = "ok" THEN <<k>> ELSE <<>>) \o OkJobs(k + 1)

\* C9: whatever the order in which the jobs finished, the entries of the
\* archive are in the order in which the walk enumerated their files.
C9_SubmissionOrder ==
    PlainWritten =>
        LET es == PlainEntries(container)
            ok == OkJobs(1)
        IN  [k \in 1..Len(es) |-> es[k].path]
              = [k \in 1..Len(ok) |-> tree[jobs[ok[k]].src].path]

C9_Witness ==
    /\ PlainWritten
    /\ Len(completed) >= 2
    /\ completed[1] > completed[2]
    /\ jobs[completed[1]].state = "ok"
    /\ jobs[completed[2]].state = "ok"

\* C10: the files whose job failed, and only they, are missing from the
\* archive; every other file has its record, and compress_folder returns Ok.
C10_FailedJobsOmitted ==
    PlainWritten =>
        LET es == PlainEntries(container)
        IN  /\ \A i \in DOMAIN jobs :
                  (jobs[i].state = "ok") <=>
                      (\E k \in DOMAIN es : es[k] = [path |-> jobs[i].rel, data |-> jobs[i].data])
            /\ Len(es) = Cardinality({i \in DOMAIN jobs : jobs[i].state = "ok"})
            /\ (pc = "da_open" => err = "none")

C10_Witness ==
    /\ pc = "da_open"
    /\ PlainWritten
    /\ Len(jobs) >= 3
    /\ jobs[2].state = "err"
    /\ jobs[1].state = "ok"
    /\ jobs[3].state = "ok"

(***************************************************************************)
(* Properties of the solid archive layout.                                 *)
(***************************************************************************)
\* what follows the dictionary in a solid archive
AfterDict(archive) == Drop(archive, 8 + FromLE(Take(archive, 8)))

\* the compressed blob: the one frame behind the dictionary
SolidBlob(archive) == Take(AfterDict(archive), 6 + AfterDict(archive)[6])

RECURSIVE SolidIndexEntries(_, _, _)
\* n index records (path_len, path, start, length) at offset pos
SolidIndexEntries(bytes, pos, n) ==
    IF n = 0 THEN <<>>
    ELSE LET plen == FromLE(SubSeq(bytes, pos + 1, pos + 8))
             at   == pos + 8 + plen
         IN  <<[path   |-> SubSeq(bytes, pos + 9, at),
                start  |-> FromLE(SubSeq(bytes, at + 1, at + 8)),
                length |-> FromLE(SubSeq(bytes, at + 9, at + 16))]>>
             \o SolidIndexEntries(bytes, at + 16, n - 1)

\* the index behind the blob: the file count and that many records
SolidIndexOf(archive) ==
    LET tail == Drop(AfterDict(archive), Len(SolidBlob(archive)))
    IN  SolidIndexEntries(tail, 8, FromLE(Take(tail, 8)))

\* the bytes of the buffer that an index record names; a range that leaves
\* the buffer names none of its bytes
Slice(buf, e) ==
    IF e.start <= Len(buf) /\ e.length <= Len(buf) - e.start
    THEN SubSeq(buf, e.start + 1, e.start + e.length)
    ELSE Bad

\* C11: in the index that compress_directory_solid writes, the first start
\* is 0, every later start is the previous start plus the previous length,
\* and the last start plus length is the length of the uncompressed buffer;
\* the ranges, in file order, are the files' bytes and make up the buffer.
C11_SolidIndexCovers ==
    SolidWritten =>
        LET ix    == SolidIndexOf(container)
            buf   == decode_all(SolidBlob(container))
            fs    == FileIndices(tree, 1)
        IN  /\ buf # Bad
            /\ Len(ix) = Len(fs)
            /\ \A k \in DOMAIN ix :
                  /\ ix[k].start = IF k = 1 THEN 0 ELSE ix[k - 1].start + ix[k - 1].length
                  /\ ix[k].path = tree[fs[k]].path
                  /\ Slice(buf, ix[k]) = tree[fs[k]].data
            /\ ix # <<>> => ix[Len(ix)].start + ix[Len(ix)].length = Len(buf)
            /\ Concat([k \in 1..Len(ix) |-> Slice(buf, ix[k])]) = buf

\* three files, the first and the third with the same bytes
C11_Witness ==
    /\ SolidWritten
    /\ Len(SolidIndexOf(container)) = 3
    /\ tree[2].data = tree[5].data
    /\ tree[3].data # tree[2].data

(***************************************************************************)
(* Properties of the block store and of the digest.                        *)
(***************************************************************************)
RECURSIVE Rebuild(_, _)
\* the stored blocks of a digest list, decompressed and joined in order
Rebuild(store, digests) ==
    IF digests = <<>> THEN <<>>
    ELSE decode_all(store[Head(digests)].compressed_data) \o Rebuild(store, Tail(digests))

\* C12: at the end of the walk, decompressing the stored block of every
\* digest of a file entry's block list, in order, gives the bytes that were
\* read from the file.
C12_BlockListRebuildsFile ==
    pc = "ci_write" =>
        \A k \in DOMAIN file_entries :
            ~file_entries[k].is_directory =>
                Rebuild(block_store, file_entries[k].blocks) = tree[k].data

\* every block of at most BLOCK_SIZE bytes over the content bytes
AllBlocks == SeqsUpTo(ContentBytes, BLOCK_SIZE) \ {<<>>}

\* the byte positions of the digest whose value depends on the block
ContentDependentBytes ==
    {i \in 1..HASH_LEN : \E a, b \in AllBlocks : calculate_hash(a)[i] # calculate_hash(b)[i]}

\* C13: the digest has at least 128 bits that depend on the content, and
\* two different blocks hashed during the walk have different digests.
C13_WideCollisionFreeDigest ==
    pc = "ci_write" =>
        /\ 8 * Cardinality(ContentDependentBytes) >= 128
        /\ \A a, b \in WalkedBlocks : a # b => calculate_hash(a) # calculate_hash(b)

(***************************************************************************)
(* Properties of the plain archive layout, the error kinds and the level.  *)
(***************************************************************************)
\* C14: the bytes compress_folder writes are the records (path, NUL, 8-byte
\* little-endian payload length, payload) of the files compressed with
\* success, in order, followed by the empty path that ends the archive.
C14_RecordsThenTerminator ==
    PlainWritten =>
        LET ok == OkJobs(1)
        IN  container =
              Concat([k \in 1..Len(ok) |-> ArchiveRecord(jobs[ok[k]].rel, jobs[ok[k]].data)])
              \o <<NUL>>

\* the kind decompress_archive reports for corrupt data: a declared size
\* above the ceiling (line 86), a path that is not UTF-8 (line 119)
FormatCorruptionKind == "InvalidFormat"

\* decompress_archive has ended on an entry whose path sanitize_path or the
\* containment check refused
PathRejected ==
    /\ pc = "done"
    /\ err # "none"
    /\ dec.last.path # <<>>
    /\ IsUtf8(dec.last.path)
    /\ LET sp == sanitize_path(dec.last.path)
       IN  ~sp.ok \/ ~ContainmentOk(links, dirs, files, OutRoot \o sp.comps)

\* C15: a path refused for path safety is reported with an error kind other
\* than the kind reported for format corruption.
C15_PathSafetyKindDistinct == PathRejected => err # FormatCorruptionKind

\* the level byte of a frame
FrameLevel(frame) == frame[5]

\* C16: the file data of an archive written by compress_directory, solid or
\* not, is compressed at the level given in the options.
C16_OptionsLevelUsed ==
    /\ SolidWritten => FrameLevel(SolidBlob(container)) = opts.level
    /\ PlainWritten =>
          LET es == PlainEntries(container)
          IN  \A k \in DOMAIN es : FrameLevel(es[k].data) = opts.level

(***************************************************************************)
(* All commands together: either pair of a writer and its reader.          *)
(***************************************************************************)
Init == InitImage \/ InitArchive

Next == NextImage \/ NextArchive

Spec == Init /\ [][Next]_vars

\* C17: when decompress_archive or extract_image fails on an entry, every
\* file written for the entries before it is still there with the content
\* that was written: the step that fails removes and changes no file and
\* removes no directory.
C17_NoRollbackOnFailure ==
    [][(pc \in {"da_entry", "ex_rec"} /\ err' # "none") =>
          /\ \A l \in DOMAIN files : l \in DOMAIN files' /\ files'[l] = files[l]
          /\ dirs \subseteq dirs']_vars

\* decompress_archive has written a and then refused the path of the next
\* entry
C17_Witness ==
    /\ pc = "done"
    /\ err = "InvalidFormat"
    /\ dec.i >= 1
    /\ PathRejected
    /\ OutLoc(<<97>>) \in DOMAIN files
    /\ OutLoc(<<97>>) \in touched

(***************************************************************************)
(* The image file as create_image lays it out, against what extract_image  *)
(* takes from it.                                                          *)
(***************************************************************************)
\* extract_image has run its opening part on an image that create_image wrote
OpenedWritten == ImageWritten /\ pc \in {"ex_rec", "done"}

\* the header create_image wrote is 4 + 5 * 8 bytes long
WrittenHeaderLen == Len(ImageHeaderBytes(0, block_store))

WrittenBlockCount == Cardinality(DOMAIN block_store)

\* the k-th record of the block index in the file
WrittenIndexRecord(k) ==
    SubSeq(container, WrittenHeaderLen + (HASH_LEN + 16) * (k - 1) + 1,
                      WrittenHeaderLen + (HASH_LEN + 16) * k)

WrittenDigest(k) == SubSeq(WrittenIndexRecord(k), 1, HASH_LEN)

WrittenLen(k) == FromLE(SubSeq(WrittenIndexRecord(k), HASH_LEN + 9, HASH_LEN + 16))

RECURSIVE WrittenPayloadAt(_)
\* the offset in the file of the k-th block payload
WrittenPayloadAt(k) ==
    IF k = 1 THEN WrittenHeaderLen + (HASH_LEN + 16) * WrittenBlockCount
    ELSE WrittenPayloadAt(k - 1) + WrittenLen(k - 1)

\* the offset in the file of the file count
WrittenFileIndexAt == Len(container) - Len(FileIndexBytes(file_entries))

\* C18: extract_image takes the header fields from the positions at which
\* create_image wrote them: the version, total_files and block_count it
\* reads are the values written.
C18_HeaderReadAsWritten ==
    OpenedWritten =>
        LET h == ReadHeader(container)
        IN  /\ h.ok
            /\ h.version = 1
            /\ h.total_files = totals.files
            /\ h.block_count = WrittenBlockCount

\* C19: for every block of an image that create_image wrote, the offset
\* extract_image derives for it is the position of its payload in the file.
C19_DerivedOffsetsAreWritten ==
    OpenedWritten =>
        \A k \in 1..WrittenBlockCount :
            /\ WrittenDigest(k) \in DOMAIN dec.block_index
            /\ dec.block_index[WrittenDigest(k)].offset = WrittenPayloadAt(k)

\* C20: extract_image takes the file count from the bytes right behind the
\* last block payload, where create_image wrote it, and so reads the count
\* of records written.
C20_FileIndexReadBehindData ==
    (OpenedWritten /\ dec.i = 0 /\ dec.last = NoRecord) =>
        /\ dec.pos = WrittenFileIndexAt + 8
        /\ dec.count = Len(file_entries)

(***************************************************************************)
(* Properties of the file records and of the data section of an image.     *)
(***************************************************************************)
\* the length of the record at offset pos in the layout create_image
\* writes: path_len, path, size, modified, is_dir, block_count, digests
WrittenRecordLen(stream, pos) ==
    LET plen == Read(stream, pos, 8)
        n    == FromLE(plen.bytes)
        bc   == Read(stream, SatAdd(pos, SatAdd(n, 25)), 8)
    IN  SatAdd(SatAdd(n, 33), SatMul(FromLE(bc.bytes), HASH_LEN))

\* C21: for a directory record extract_image writes no file and consumes
\* the whole record, its block_count field included, so that the next
\* record is read from its first byte.
C21_DirectoryRecordConsumed ==
    [][(pc = "ex_rec" /\ dec'.i = dec.i + 1 /\ dec'.last.is_dir) =>
          /\ files' = files
          /\ dec'.pos = SatAdd(dec.pos, WrittenRecordLen(dec.stream, dec.pos))]_vars

\* create_image has written its image
ImageOnDisk == ImageWritten /\ pc \in {"ex_open", "ex_rec", "done"}

\* C22: in the image create_image writes, payload i of the data section is
\* the compressed data of the block of index record i and has that
\* record's compressed_len bytes: it starts at the start of the data
\* section plus the sum of the compressed_len of the records before it,
\* and the file count follows the last payload.
C22_PayloadsInIndexOrder ==
    ImageOnDisk =>
        /\ \A k \in 1..WrittenBlockCount :
              /\ WrittenDigest(k) \in DOMAIN block_store
              /\ WrittenLen(k) = Len(block_store[WrittenDigest(k)].compressed_data)
              /\ Read(container, WrittenPayloadAt(k), WrittenLen(k)).bytes
                    = block_store[WrittenDigest(k)].compressed_data
        /\ {WrittenDigest(k) : k \in 1..WrittenBlockCount} = DOMAIN block_store
        /\ WrittenPayloadAt(WrittenBlockCount + 1) = WrittenFileIndexAt

\* two blocks with payloads of different lengths
C22_Witness ==
    /\ ImageOnDisk
    /\ WrittenBlockCount >= 2
    /\ WrittenLen(1) # WrittenLen(2)

(***************************************************************************)
(* Properties of the readers' handling of untrusted fields and paths.      *)
(***************************************************************************)
\* C23: every length or count that a reader takes from its input file is
\* checked against a ceiling or against what is left of the input before a
\* buffer of that size is allocated: no buffer is larger than the ceiling
\* and larger than the whole input.
C23_AllocationsBounded ==
    \A n \in allocs : n <= MAX_DICT_SIZE \/ n <= Len(container)

\* where the path of the entry processed last leads, joined to the output
\* directory and resolved through the links on the way
LastTarget == Resolve(links, OutRoot \o sanitize_path(dec.last.path).comps)

\* C24: an entry of decompress_archive whose sanitized path, joined to the
\* output directory, resolves to a place outside of it is refused, also
\* when the file does not exist yet: nothing is written for it.
C24_OutsideTargetRefused ==
    (/\ pc \in {"da_entry", "done"}
     /\ dec.last.path # <<>>
     /\ IsUtf8(dec.last.path)
     /\ sanitize_path(dec.last.path).ok
     /\ ~Inside(LastTarget)) => ~dec.last.wrote

RECURSIVE CompleteEntries(_)
\* the complete entries at the head of an entry stream
CompleteEntries(stream) ==
    LET path == ReadPath(stream, 0)
        len  == Read(stream, path.pos, 8)
        body == Read(stream, len.pos, FromLE(len.bytes))
    IN  IF stream = <<>> \/ path.bytes = <<>> \/ stream[path.pos] # NUL
           \/ ~len.ok \/ ~body.ok
        THEN <<>>
        ELSE <<[path |-> path.bytes, size |-> body.pos]>>
             \o CompleteEntries(Drop(stream, body.pos))

RECURSIVE SkipEntries(_, _)
SkipEntries(stream, es) ==
    IF es = <<>> THEN stream ELSE SkipEntries(Drop(stream, Head(es).size), Tail(es))

\* the stream is complete entries and then the empty path that ends it
CompleteStream(stream) ==
    LET rest == SkipEntries(stream, CompleteEntries(stream))
    IN  rest # <<>> /\ rest[1] = NUL

\* the places that creating the complete entries of a stream may touch
EntryPlaces(stream) ==
    LET es == CompleteEntries(stream)
    IN  UNION { LET full == OutRoot \o sanitize_path(es[k].path).comps
                IN  {Resolve(links, Take(full, n)) : n \in 0..Len(full)} :
                k \in {j \in DOMAIN es : IsUtf8(es[j].path) /\ sanitize_path(es[j].path).ok} }

\* decompress_archive has gone through the entry stream of its archive
StreamDone == pc = "done" /\ (err = "none" \/ dec.stream # <<>>)

\* C30: when the entry stream stops in a path, a size field or a payload,
\* or stops without the empty path that ends it, decompress_archive
\* returns an error and creates no file and no directory for the
\* incomplete entry.
C30_TruncatedStreamIsError ==
    (StreamDone /\ ~CompleteStream(dec.stream)) =>
        /\ err # "none"
        /\ \A l \in touched : l = OutRoot \/ l \in EntryPlaces(dec.stream)

(***************************************************************************)
(* Properties of sanitize_path, seen on the entry decompress_archive       *)
(* processed last.                                                         *)
(***************************************************************************)
\* the pieces of the trimmed path between slashes and backslashes
Segments(p) == SplitOn(Trim(p), {47, 92})

\* the pieces that are kept: not empty, not "." and not ".."
KeptIndices(p) == {i \in DOMAIN Segments(p) : Segments(p)[i] \notin {Dot, DotDot, <<>>}}

\* the paths that are to be refused
MustReject(p) ==
    \/ Trim(p) = <<>>
    \/ Trim(p)[1] \in {47, 92}
    \/ \E i \in DOMAIN Trim(p) : Trim(p)[i] = 58
    \/ KeptIndices(p) = {}

\* decompress_archive, with no link in the output directory, has taken an
\* entry path from the stream
SanitizedEntry ==
    /\ pc \in {"da_entry", "done"}
    /\ links = NoFiles
    /\ dec.last.path # <<>>
    /\ IsUtf8(dec.last.path)

\* C25: sanitize_path refuses a path that is empty after trimming, begins
\* with a slash or backslash, holds a colon or keeps no component; of any
\* other path it returns the kept components, in their order, each with
\* its invalid characters replaced by '_': at least one component, none
\* empty, "." or "..", none holding an invalid character.
C25_SanitizePathContract ==
    SanitizedEntry =>
        LET p  == dec.last.path
            sp == sanitize_path(p)
        IN  IF MustReject(p)
            THEN ~sp.ok /\ err = "InvalidFormat" /\ ~dec.last.wrote
            ELSE /\ sp.ok
                 /\ Len(sp.comps) >= 1
                 /\ \A k \in DOMAIN sp.comps :
                       /\ sp.comps[k] \notin {Dot, DotDot, <<>>}
                       /\ \A i \in DOMAIN sp.comps[k] : sp.comps[k][i] \notin InvalidChars
                 /\ \E f \in [DOMAIN sp.comps -> KeptIndices(p)] :
                       /\ \A j, k \in DOMAIN f : j < k => f[j] < f[k]
                       /\ \A i \in KeptIndices(p) : \E k \in DOMAIN f : f[k] = i
                       /\ \A k \in DOMAIN f :
                             sp.comps[k] = [i \in DOMAIN Segments(p)[f[k]] |->
                                              IF Segments(p)[f[k]][i] \in {60, 62, 58, 34, 124, 63, 42}
                                              THEN 95 ELSE Segments(p)[f[k]][i]]
                 /\ dec.last.wrote => (OutRoot \o sp.comps) \in DOMAIN files

\* the entry ../< was written as the file _ of the output directory
C25_Witness ==
    /\ SanitizedEntry
    /\ dec.last.path = <<46, 46, 47, 60>>
    /\ dec.last.wrote
    /\ (OutRoot \o <<<<95>>>>) \in DOMAIN files

(***************************************************************************)
(* The files compress_folder trims.                                        *)
(***************************************************************************)
\* C26: the job of a file holds the compressed bytes of its lines trimmed
\* at the end when detect_profile gives the file the profile Text, and the
\* compressed bytes of its unmodified content for any other profile.
C26_TrimFollowsProfile ==
    \A i \in DOMAIN jobs :
        jobs[i].state = "ok" =>
            decode_all(jobs[i].data)
              = IF jobs[i].profile = "Text"
                THEN TrimLines(tree[jobs[i].src].data)
                ELSE tree[jobs[i].src].data

(***************************************************************************)
(* Properties of split_into_blocks, seen on the files create_image walked. *)
(***************************************************************************)
\* the regular files the walk has passed
WalkedFiles == {k \in DOMAIN file_entries : ~tree[k].is_dir}

\* C27: the blocks of a file are, in order, its bytes cut every BLOCK_SIZE
\* bytes: their concatenation is the file, every block but the last has
\* BLOCK_SIZE bytes, the last has between 1 and BLOCK_SIZE, an empty file
\* has no block, the number of blocks is the size divided by BLOCK_SIZE and
\* rounded up, and every block carries calculate_hash of its bytes.
C27_BlocksPartitionData ==
    \A k \in WalkedFiles :
        LET data == tree[k].data
            bs   == split_into_blocks(data)
            n    == Len(bs)
        IN  /\ Concat([i \in 1..n |-> bs[i].data]) = data
            /\ \A i \in 1..n :
                  /\ i < n => Len(bs[i].data) = BLOCK_SIZE
                  /\ Len(bs[i].data) >= 1
                  /\ Len(bs[i].data) <= BLOCK_SIZE
                  /\ bs[i].data = [j \in 1..Len(bs[i].data) |-> data[(i - 1) * BLOCK_SIZE + j]]
                  /\ bs[i].hash = calculate_hash([j \in 1..Len(bs[i].data) |->
                                                     data[(i - 1) * BLOCK_SIZE + j]])
            /\ (data = <<>> => n = 0)
            /\ n = (Len(data) + BLOCK_SIZE - 1) \div BLOCK_SIZE
            /\ file_entries[k].blocks = [i \in 1..n |-> bs[i].hash]

\* a walked file longer than a block whose last block is short
C27_Witness ==
    \E k \in WalkedFiles :
        /\ Len(tree[k].data) > BLOCK_SIZE
        /\ Len(tree[k].data) % BLOCK_SIZE # 0
        /\ Len(file_entries[k].blocks) = Len(tree[k].data) \div BLOCK_SIZE + 1

(***************************************************************************)
(* The aggregates of the image header.                                     *)
(***************************************************************************)
\* the 8-byte header field written at offset at
WrittenField(at) == FromLE(SubSeq(container, at + 1, at + 8))

RECURSIVE StoredBytes(_)
\* the compressed bytes held by the blocks S of the store
StoredBytes(S) ==
    IF S = {} THEN 0
    ELSE LET h == CHOOSE x \in S : TRUE
         IN  Len(block_store[h].compressed_data) + StoredBytes(S \ {h})

RECURSIVE TreeBytes(_)
\* the bytes of the regular files of a tree
TreeBytes(t) ==
    IF t = <<>> THEN 0
    ELSE (IF Head(t).is_dir THEN 0 ELSE Len(Head(t).data)) + TreeBytes(Tail(t))

\* C28: in the image that create_image wrote, block_count is the number of
\* entries of the block store and of index records in the file,
\* compressed_size the sum of the compressed lengths of the stored blocks,
\* total_files the number of entries that are no directory and total_size
\* the sum of their sizes; the walk had passed every entry when they were
\* written.
C28_HeaderAggregates ==
    ImageOnDisk =>
        /\ Len(file_entries) = Len(tree)
        /\ Len(container) >= 44
        /\ WrittenField(12) = Cardinality({k \in DOMAIN tree : ~tree[k].is_dir})
        /\ WrittenField(20) = TreeBytes(tree)
        /\ WrittenField(28) = StoredBytes(DOMAIN block_store)
        /\ WrittenField(36) = Cardinality(DOMAIN block_store)
        /\ 44 + (HASH_LEN + 16) * WrittenField(36) + WrittenField(28) = WrittenFileIndexAt
        /\ \A h \in DOMAIN block_store :
              \E k \in 1..WrittenField(36) :
                  /\ 44 + (HASH_LEN + 16) * k <= Len(container)
                  /\ SubSeq(container, 44 + (HASH_LEN + 16) * (k - 1) + 1,
                                       44 + (HASH_LEN + 16) * (k - 1) + HASH_LEN) = h

\* two files were imaged and they share a block: the store holds fewer
\* blocks than the files refer to
C28_Witness ==
    /\ ImageOnDisk
    /\ totals.files = 2
    /\ Cardinality(DOMAIN block_store) >= 1
    /\ Cardinality(DOMAIN block_store)
         < Len(Concat([k \in 1..Len(file_entries) |-> file_entries[k].blocks]))

(***************************************************************************)
(* The samples of generate_global_dictionary.                              *)
(***************************************************************************)
\* the samples collected from the folder archived
SamplesTaken == Samples(Take(TopLevel(tree), MAX_SAMPLES))

\* C29: generate_global_dictionary collects at most MAX_SAMPLES samples of
\* at most MAX_SAMPLE_SIZE bytes each; with fewer than MIN_SAMPLES samples
\* the solid archive begins with a dictionary length of 0 and the
\* compressed stream follows it directly.
C29_SamplingCapped ==
    SolidWritten =>
        /\ Len(SamplesTaken) <= MAX_SAMPLES
        /\ \A i \in DOMAIN SamplesTaken : Len(SamplesTaken[i]) <= MAX_SAMPLE_SIZE
        /\ Len(SamplesTaken) < MIN_SAMPLES =>
              /\ generate_global_dictionary(tree) = <<>>
              /\ Take(container, 8) = ToLE(0, 8)
              /\ Take(Drop(container, 8), 4) = ZSTD_MAGIC

\* a folder with one file at its top, longer than a sample: the archive
\* begins with the length 0
C29_Witness ==
    /\ SolidWritten
    /\ Len(SamplesTaken) = 1
    /\ \E k \in DOMAIN tree : tree[k].data # <<>> /\ SamplesTaken[1] = Take(tree[k].data, MAX_SAMPLE_SIZE)
                              /\ Len(tree[k].data) > MAX_SAMPLE_SIZE
    /\ Take(container, 8) = ToLE(0, 8)

====
